---------------------------- MODULE Spec2Model ----------------------------
(***************************************************************************)
(* The SAM (Sharpness-Aware Minimization) optimizer of src/optimizer.py.   *)
(*                                                                         *)
(* Every parameter is a one-element tensor.  Numbers are held to a         *)
(* resolution of one unit; the constant 1e-12 of first_step lies far below *)
(* one unit, so a quotient x / (norm + 1e-12) is the real quotient rounded *)
(* to the nearest unit (RoundDivNorm).  The 2-norm of the stacked          *)
(* per-parameter norms is irrational in general, so _grad_norm is carried  *)
(* exactly, by its square (the radicand).                                  *)
(***************************************************************************)
EXTENDS Integers, Sequences, FiniteSets, TLC

\* ------------------------------------------------------------------ bounds
MaxCalls  == 2      \* first_step and second_step runs explored (step is both)
MaxLoads  == 1      \* load_state_dict calls explored

\* ------------------------------------------------------------------ inputs
Params   == {"p1", "p2", "p3"}
None     == <<>>                \* an absent gradient or state entry
Some(v)  == <<v>>               \* a present one, holding v
Val(x)   == x[1]
\* the gradients one backward pass computes, for the parameters it reaches
GradPasses == { [p \in Params |-> CASE p = "p1" -> 3 [] p = "p2" -> -4 [] OTHER -> 3],
                [p \in Params |-> 0] }
RhoVals  == {-1, 0, 2}          \* rho handed to the constructor
InitData == [p \in Params |-> CASE p = "p1" -> 2 [] p = "p2" -> -3 [] OTHER -> 1]

\* -------------------------------------------------------------- arithmetic
Abs(x) == IF x < 0 THEN -x ELSE x

Range(s) == {s[i] : i \in 1..Len(s)}

RECURSIVE SumSeq(_)
SumSeq(s) == IF s = <<>> THEN 0 ELSE Head(s) + SumSeq(Tail(s))

\* x / 1e-12, the quotient first_step forms when the norm is zero
DivEps(x) == (x * 1000000) * 1000000

\* the denominator grad_norm + 1e-12 of line 41, in units of 1e-12, for a
\* norm of whole units: the scale rho / (grad_norm + 1e-12) is finite when
\* this is not zero
ScaleDen(norm) == (norm * 1000000) * 1000000 + 1

\* nearest unit to a / (sqrt(nsq) + 1e-12); a tie of a / sqrt(nsq) falls
\* toward zero because the 1e-12 makes the quotient a hair smaller
RoundDivNorm(a, nsq) ==
    IF nsq = 0 THEN DivEps(a)
    ELSE LET m == Abs(a)
             q == CHOOSE k \in 0..m :
                     /\ 4 * m * m <= (2 * k + 1) * (2 * k + 1) * nsq
                     /\ (k = 0 \/ (2 * k - 1) * (2 * k - 1) * nsq < 4 * m * m)
         IN  IF a < 0 THEN -q ELSE q

\* ------------------------------------------------------------------- state
VARIABLES
    constructed,  \* "no" before SAM.__init__, "yes" after it, "failed" if it raised
    rho_arg,      \* the rho the constructor was called with
    base_built,   \* TRUE once base_optimizer(...) has been called (line 33)
    set_to_none,  \* whether this torch build's zero_grad sets gradients to None
    data,         \* p.data of every parameter
    grad,         \* p.grad of every parameter, None when absent
    old_p,        \* self.state[p]["old_p"], None when the entry is absent
    shares,       \* TRUE when p.data is the very tensor stored as old_p
    lists,        \* heap of param_groups list objects, by identity
    sam_pg,       \* identity of self.param_groups
    base_pg,      \* identity of self.base_optimizer.param_groups
    buf,          \* base optimizer's per-parameter state (momentum buffer)
    saved,        \* a serialized state_dict() of the SAM optimizer, or None
    pc,           \* "idle", or the position inside a running step(closure)
    outcome,      \* how the latest call ended: "ok" or the error raised
    log,          \* what the running / latest step(closure) has done, in order
    cyc,          \* record of the latest completed first_step
    sec,          \* record of the latest second_step
    defaults,     \* self.defaults: the rho and adaptive a new group inherits
    calls,        \* first_step and second_step runs so far
    evaluated,    \* a backward pass ran since the latest of these runs
    n_load,       \* load_state_dict calls so far
    n_base,       \* invocations of the base optimizer's step so far
    request,      \* the arguments of a select_optimizer call, None before any
    selected      \* what that call returned or raised, None while it has not run

vars == <<constructed, rho_arg, base_built, set_to_none, data, grad, old_p, shares,
          lists, sam_pg, base_pg, buf, saved, pc, outcome, log, cyc, sec,
          defaults, calls, evaluated, n_load, n_base, request, selected>>

\* what the optimizer and the model hold
prog == <<data, grad, old_p, shares, lists, sam_pg, base_pg, buf, defaults>>

\* ---------------------------------------------------- groups and gradients
\* a parameter group: its parameters in order and its hyperparameters
Group(ps, rho, adaptive, lr) ==
    [params |-> ps, rho |-> rho, adaptive |-> adaptive, lr |-> lr]

\* for group in param_groups for p in group["params"]
RECURSIVE Flat(_)
Flat(gs) == IF gs = <<>> THEN <<>> ELSE Head(gs).params \o Flat(Tail(gs))

GroupOf(gs, p) == gs[CHOOSE i \in 1..Len(gs) : p \in Range(gs[i].params)]

\* the parameters the loops do not skip: if p.grad is None: continue
WithGrad(gs, g) == SelectSeq(Flat(gs), LAMBDA p : g[p] # None)

ParamNormGuarded(gs, d, g, p) ==
    Abs((IF GroupOf(gs, p).adaptive THEN Abs(d[p]) ELSE 1) * Val(g[p])) + 1

\* ((torch.abs(p) if group["adaptive"] else 1.0) * p.grad).norm(p=2)
ParamNorm(gs, d, g, p) ==
    Abs((IF GroupOf(gs, p).adaptive THEN Abs(d[p]) ELSE 1) * Val(g[p]))

\* _grad_norm, as the square of the norm of the stacked per-parameter norms
grad_norm_sq(gs, d, g) ==
    LET ps == WithGrad(gs, g)
    IN  SumSeq([i \in 1..Len(ps) |->
                    ParamNorm(gs, d, g, ps[i]) * ParamNorm(gs, d, g, ps[i])])

WeightAbs(gs, d, p) == IF GroupOf(gs, p).adaptive THEN Abs(d[p]) ELSE 1

\* torch.pow(p, 2) if group["adaptive"] else 1.0
Weight(gs, d, p) == IF GroupOf(gs, p).adaptive THEN d[p] * d[p] ELSE 1

\* e_w = weight * p.grad * scale, with scale = group["rho"] / (grad_norm + 1e-12)
e_w(gs, d, g, p, nsq) ==
    RoundDivNorm(Weight(gs, d, p) * Val(g[p]) * GroupOf(gs, p).rho, nsq)

\* Optimizer.zero_grad over the optimizer's own groups
zero_grad(gs, g) ==
    [p \in Params |->
        IF p \in Range(Flat(gs)) /\ g[p] # None
        THEN (IF set_to_none THEN None ELSE Some(0))
        ELSE g[p]]

\* the base optimizer's update of one parameter: SGD with momentum 0.9, as
\* select_optimizer builds it (lines 17-18); the buffer is held to the unit
BaseBuf(b, g) == IF b = None THEN g ELSE ((9 * Val(b)) \div 10) + g
BaseUpdate(w, g, b, lr) == w - lr * BaseBuf(b, g)

NoParams == [p \in Params |-> None]
NoCycle  == [open |-> FALSE, clean |-> FALSE, w |-> InitData, g |-> NoParams,
             snap |-> {}]
NoSecond == [reads |-> {}, restored |-> {}, based |-> FALSE, cycle |-> FALSE,
             evald |-> FALSE, in_step |-> FALSE, at_base |-> InitData]
Result(op, res) == [op |-> op, result |-> res]

TypeOK ==
    /\ constructed \in {"no", "yes", "failed"}
    /\ base_built \in BOOLEAN
    /\ set_to_none \in BOOLEAN
    /\ data \in [Params -> Int]
    /\ \A p \in Params : grad[p] = None \/ Val(grad[p]) \in Int
    /\ \A p \in Params : old_p[p] = None \/ Val(old_p[p]) \in Int
    /\ \A p \in Params : shares[p] => old_p[p] = Some(data[p])
    /\ shares \in [Params -> BOOLEAN]
    /\ pc \in {"idle", "closure", "second"}

\* --------------------------------------------------------- select_optimizer
\* the names the caller may pass: the seven of lines 6-19 and others
NameArgs == {"SGD", "momentum", "Adam", "AdamW", "AdaBelief", "SAM", "SAM_Adam",
             "sgd", "Sam", "bogus", ""}

\* the calls explored: a name, a learning rate, and momentum and betas either
\* left at their defaults (0.9 and (0.9, 0.999), in thousandths) or passed
Requests ==
    [name : NameArgs, learning_rate : {1, 2}, momentum : {900, 500},
     betas : {<<900, 999>>, <<500, 999>>}]

base_optimizer_sgd(name) == "SGD"

\* base_optimizer = optim.SGD (line 17) or optim.Adam (line 20)
base_optimizer_of(name) == IF name = "SAM" THEN "SGD" ELSE "Adam"

\* an optimizer built over model.parameters(): its class, the class SAM wraps
\* ("-" when it wraps none), the keyword arguments, the optimizers
\* constructed, and whether model.parameters() was called
Built(class, base, kwargs, n) ==
    [result |-> "ok", class |-> class, base |-> base, kwargs |-> kwargs,
     built |-> n, touched |-> TRUE]

\* raise ValueError("Unsupported optimizer") of line 23
Unsupported ==
    [result |-> "ValueError", class |-> "-", base |-> "-", kwargs |-> <<>>,
     built |-> 0, touched |-> FALSE]

\* select_optimizer, lines 5-23
select_optimizer(optimizer_name, learning_rate, momentum, betas) ==
    CASE optimizer_name = "SGD" ->
            Built("SGD", "-", <<"lr", learning_rate>>, 1)
      [] optimizer_name = "momentum" ->
            Built("SGD", "-", <<"lr", learning_rate, "momentum", momentum>>, 1)
      [] optimizer_name = "Adam" ->
            Built("Adam", "-", <<"lr", learning_rate, "betas", betas>>, 1)
      [] optimizer_name = "AdamW" ->
            Built("AdamW", "-", <<"lr", learning_rate, "betas", betas>>, 1)
      [] optimizer_name = "AdaBelief" ->
            Built("AdaBelief", "-", <<"lr", learning_rate, "betas", betas>>, 1)
      [] optimizer_name = "SAM" ->
            Built("SAM", base_optimizer_of(optimizer_name),
                  <<"lr", learning_rate, "momentum", momentum>>, 2)
      [] optimizer_name = "SAM_Adam" ->
            Built("SAM", base_optimizer_of(optimizer_name),
                  <<"lr", learning_rate, "betas", betas>>, 2)
      [] OTHER -> Unsupported

\* the caller calls select_optimizer with the arguments of request
Select ==
    /\ request # None
    /\ selected = None
    /\ selected' = Some(select_optimizer(Val(request).name,
                                         Val(request).learning_rate,
                                         Val(request).momentum,
                                         Val(request).betas))
    /\ UNCHANGED <<constructed, rho_arg, base_built, set_to_none, data, grad,
                   old_p, shares, lists, sam_pg, base_pg, buf, saved, pc,
                   outcome, log, cyc, sec, defaults, calls, evaluated, n_load,
                   n_base, request>>

\* ------------------------------------------------------------ construction
\* the optimizer's state before SAM.__init__ is called
InitOptimizer ==
    /\ constructed = "no"
    /\ rho_arg = 0
    /\ base_built = FALSE
    /\ set_to_none \in BOOLEAN
    /\ data = InitData
    /\ grad = NoParams
    /\ old_p = NoParams
    /\ shares = [p \in Params |-> FALSE]
    /\ lists = <<>>
    /\ sam_pg = 0
    /\ base_pg = 0
    /\ defaults = [rho |-> 0, adaptive |-> FALSE]
    /\ buf = NoParams
    /\ saved = None
    /\ pc = "idle"
    /\ outcome = Result("none", "ok")
    /\ log = <<>>
    /\ cyc = NoCycle
    /\ sec = NoSecond
    /\ calls = 0 /\ evaluated = FALSE /\ n_load = 0 /\ n_base = 0

Init == InitOptimizer /\ request = None /\ selected = None

\* the groups the caller hands to the constructor
Layouts == { << <<"p1", "p2">> >>, << <<"p1">>, <<"p2">> >> }

\* the heap after a collection: a list object no handle refers to is dropped
Collect(ls, refs) == [i \in 1..Len(ls) |-> IF i \in refs THEN ls[i] ELSE <<>>]

rho_ok_positive(rho) == rho > 0

\* assert rho >= 0.0 (line 28)
rho_ok(rho) == rho >= 0

\* self.param_groups = self.base_optimizer.param_groups (line 34)
init_sam_pg(own, base) == base

\* SAM.__init__
Construct ==
    /\ constructed = "no"
    /\ \E rho \in RhoVals, adaptive \in BOOLEAN, layout \in Layouts :
        /\ rho_arg' = rho
        /\ IF ~rho_ok(rho)
           THEN /\ constructed' = "failed"
                /\ outcome' = Result("__init__", "AssertionError")
                /\ UNCHANGED <<base_built, lists, sam_pg, base_pg, defaults>>
           ELSE LET gs == [i \in 1..Len(layout) |->
                               Group(layout[i], rho, adaptive, 1)]
                IN  /\ constructed' = "yes"
                    /\ base_built' = TRUE
                    /\ lists' = Collect(<<gs, gs>>, {init_sam_pg(1, 2), 2})
                    /\ base_pg' = 2
                    /\ sam_pg' = init_sam_pg(1, 2)
                    /\ defaults' = [rho |-> rho, adaptive |-> adaptive]
                    /\ outcome' = Result("__init__", "ok")
    /\ UNCHANGED <<set_to_none, data, grad, old_p, shares, buf, saved, pc, log,
                   cyc, sec, calls, evaluated, n_load, n_base>>
    /\ UNCHANGED <<request, selected>>

Idle == constructed = "yes" /\ pc = "idle"

\* ------------------------------------------------------ gradients (caller)
\* a backward pass over the parameters in S: autograd sets an absent gradient
\* and adds to a present one
Accumulate(g, S, gv) ==
    [p \in Params |->
        IF p \in S THEN Some((IF g[p] = None THEN 0 ELSE Val(g[p])) + gv[p])
        ELSE g[p]]

\* the training loop clears a gradient before a backward pass builds it anew
CanAccumulate(g, S, gv) ==
    \A p \in S : g[p] = None \/ g[p] = Some(0)

\* the parameters a backward pass reaches: those of the model the optimizer
\* was given (a gradient of a parameter in no group is never read)
Reached == Range(Flat(lists[sam_pg])) \cup Range(Flat(lists[base_pg]))

\* the training loop runs loss.backward() outside step
Backward ==
    /\ Idle
    /\ ~evaluated
    /\ evaluated' = TRUE
    /\ \E S \in SUBSET Reached, gv \in GradPasses :
        /\ S # {}
        /\ CanAccumulate(grad, S, gv)
        /\ grad' = Accumulate(grad, S, gv)
    /\ UNCHANGED <<constructed, rho_arg, base_built, set_to_none, data, old_p, shares,
                   lists, sam_pg, base_pg, buf, saved, pc, outcome, log, cyc,
                   sec, defaults, calls, n_load, n_base>>
    /\ UNCHANGED <<request, selected>>

\* the training loop calls optimizer.zero_grad()
ZeroGrad ==
    /\ Idle
    /\ grad' = zero_grad(lists[sam_pg], grad)
    /\ grad' # grad
    /\ UNCHANGED <<constructed, rho_arg, base_built, set_to_none, data, old_p, shares,
                   lists, sam_pg, base_pg, buf, saved, pc, outcome, log, cyc,
                   sec, defaults, calls, evaluated, n_load, n_base>>
    /\ UNCHANGED <<request, selected>>

\* --------------------------------------------------------------- first_step
\* torch.stack of an empty list raises: _grad_norm needs one gradient at least
first_step_raises == WithGrad(lists[sam_pg], grad) = <<>>

SnapshottedAll(gs, g) == Range(Flat(gs))

\* the parameters first_step gives an old_p entry (lines 44-45)
Snapshotted(gs, g) == Range(WithGrad(gs, g))

\* SAM.first_step(zero_grad), lines 38-49
first_step(zg) ==
    LET gs  == lists[sam_pg]
        hit == Range(WithGrad(gs, grad))
        nsq == grad_norm_sq(gs, data, grad)
    IN  /\ calls' = calls + 1
        /\ evaluated' = FALSE
        /\ IF first_step_raises
           THEN UNCHANGED <<data, old_p, shares, grad, cyc, sec>>
           ELSE /\ old_p' = [p \in Params |->
                                IF p \in Snapshotted(gs, grad) THEN Some(data[p])
                                ELSE old_p[p]]
                /\ shares' = [p \in Params |->
                                IF p \in Snapshotted(gs, grad) THEN FALSE
                                ELSE shares[p]]
                /\ data' = [p \in Params |->
                                IF p \in hit
                                THEN data[p] + e_w(gs, data, grad, p, nsq)
                                ELSE data[p]]
                /\ grad' = IF zg THEN zero_grad(gs, grad) ELSE grad
                /\ cyc' = [open |-> TRUE, clean |-> TRUE, w |-> data,
                           g |-> grad, snap |-> hit]
                /\ sec' = NoSecond

FirstStep ==
    /\ Idle
    /\ calls < MaxCalls
    /\ \E zg \in BOOLEAN : first_step(zg)
    /\ outcome' = Result("first_step",
                         IF first_step_raises THEN "RuntimeError" ELSE "ok")
    /\ UNCHANGED <<constructed, rho_arg, base_built, set_to_none, lists, sam_pg,
                   base_pg, buf, saved, pc, log, defaults,
                   n_load, n_base>>
    /\ UNCHANGED <<request, selected>>

\* -------------------------------------------------------------- second_step
restored_value_kept(old, cur) == cur

\* the value p.data gets on line 56
restored_value(old, cur) == old

\* the parameters with a gradient whose old_p entry is absent: line 56 raises
\* KeyError at the first of them
Missing(ps) == {i \in 1..Len(ps) : old_p[ps[i]] = None}
FirstMissing(ps) ==
    IF Missing(ps) = {} THEN Len(ps) + 1
    ELSE CHOOSE i \in Missing(ps) : \A j \in Missing(ps) : i <= j

second_step_raises == Missing(WithGrad(lists[sam_pg], grad)) # {}

restore_copies == FALSE

\* line 56 assigns the stored tensor itself, no clone: afterwards p.data and
\* state[p]["old_p"] are one array
restore_aliases == TRUE

\* SAM.second_step(zero_grad), lines 52-60
second_step(zg, in_step) ==
    LET gs   == lists[sam_pg]
        ps   == WithGrad(gs, grad)
        k    == FirstMissing(ps)
        rest == {ps[i] : i \in 1..(k - 1)}
        rd   == {ps[i] : i \in 1..(IF k <= Len(ps) THEN k ELSE Len(ps))}
        d1   == [p \in Params |->
                    IF p \in rest THEN restored_value(Val(old_p[p]), data[p])
                    ELSE data[p]]
        sh1  == [p \in Params |-> IF p \in rest THEN restore_aliases ELSE shares[p]]
        bgs  == lists[base_pg]
        bps  == Range(WithGrad(bgs, grad))
        d2   == [p \in Params |->
                    IF p \in bps
                    THEN BaseUpdate(d1[p], Val(grad[p]), buf[p], GroupOf(bgs, p).lr)
                    ELSE d1[p]]
    IN  /\ calls' = calls + 1
        /\ evaluated' = FALSE
        /\ shares' = sh1
        /\ cyc' = [cyc EXCEPT !.open = FALSE]
        /\ IF second_step_raises
           THEN /\ data' = d1
                /\ UNCHANGED <<old_p, buf, grad, n_base>>
           ELSE /\ data' = d2
                /\ buf' = [p \in Params |->
                              IF p \in bps THEN Some(BaseBuf(buf[p], Val(grad[p])))
                              ELSE buf[p]]
                /\ old_p' = [p \in Params |->
                              IF sh1[p] THEN Some(d2[p]) ELSE old_p[p]]
                /\ grad' = IF zg THEN zero_grad(gs, grad) ELSE grad
                /\ n_base' = n_base + 1
        /\ sec' = [reads |-> rd, restored |-> rest,
                   based |-> ~second_step_raises,
                   cycle |-> cyc.open /\ cyc.clean,
                   evald |-> evaluated \/ in_step, in_step |-> in_step,
                   at_base |-> d1]

SecondStep ==
    /\ Idle
    /\ calls < MaxCalls
    /\ \E zg \in BOOLEAN : second_step(zg, FALSE)
    /\ outcome' = Result("second_step",
                         IF second_step_raises THEN "KeyError" ELSE "ok")
    /\ UNCHANGED <<constructed, rho_arg, base_built, set_to_none, lists, sam_pg,
                   base_pg, saved, pc, log, defaults, n_load>>
    /\ UNCHANGED <<request, selected>>

\* second_step called once more by the caller, with no first_step since the
\* second_step before it
SecondStepAgain ==
    /\ Idle
    /\ calls = MaxCalls
    /\ ~cyc.open /\ sec.based
    /\ \E zg \in BOOLEAN : second_step(zg, FALSE)
    /\ outcome' = Result("second_step",
                         IF second_step_raises THEN "KeyError" ELSE "ok")
    /\ UNCHANGED <<constructed, rho_arg, base_built, set_to_none, lists, sam_pg,
                   base_pg, saved, pc, log, defaults, n_load>>
    /\ UNCHANGED <<request, selected>>

\* --------------------------------------------------------------------- step
Ev(kind, p) == [kind |-> kind, p |-> p]
Events(kind, ps) == [i \in 1..Len(ps) |-> Ev(kind, ps[i])]

step_zero_grad_off == FALSE

\* the zero_grad argument step hands to first_step (line 67)
step_zero_grad == TRUE

StepNoClosureLate ==
    /\ Idle
    /\ calls < MaxCalls
    /\ first_step(TRUE)
    /\ outcome' = Result("step", "AssertionError")
    /\ outcome' # outcome
    /\ UNCHANGED <<constructed, rho_arg, base_built, set_to_none, lists,
                   sam_pg, base_pg, buf, saved, pc, log, defaults, n_load,
                   n_base>>
    /\ UNCHANGED <<request, selected>>

\* step(closure=None): the assertion of line 64 fails
StepNoClosure ==
    /\ Idle
    /\ outcome' = Result("step", "AssertionError")
    /\ outcome' # outcome
    /\ UNCHANGED <<constructed, rho_arg, base_built, set_to_none, data, grad, old_p,
                   shares, lists, sam_pg, base_pg, buf, saved, pc, log, cyc,
                   sec, defaults, calls, evaluated, n_load, n_base>>
    /\ UNCHANGED <<request, selected>>

\* step(closure), lines 64-67: the assertion passes, first_step runs
StepBegin ==
    /\ Idle
    /\ calls + 1 < MaxCalls
    /\ first_step(step_zero_grad)
    /\ IF first_step_raises
       THEN /\ pc' = "idle"
            /\ log' = <<>>
            /\ outcome' = Result("step", "RuntimeError")
       ELSE /\ pc' = "closure"
            /\ log' = Events("perturb", WithGrad(lists[sam_pg], grad))
                      \o (IF step_zero_grad THEN <<Ev("zero_grad", "-")>>
                          ELSE <<>>)
            /\ outcome' = Result("step", "running")
    /\ UNCHANGED <<constructed, rho_arg, base_built, set_to_none, lists, sam_pg,
                   base_pg, buf, saved, defaults, n_load,
                   n_base>>
    /\ UNCHANGED <<request, selected>>

\* line 68: closure() runs its forward and backward pass
StepClosure ==
    /\ pc = "closure"
    /\ \E S \in SUBSET Reached, gv \in GradPasses :
        /\ S # {}
        /\ CanAccumulate(grad, S, gv)
        /\ grad' = Accumulate(grad, S, gv)
    /\ pc' = "second"
    /\ log' = Append(log, Ev("closure", "-"))
    /\ UNCHANGED <<constructed, rho_arg, base_built, set_to_none, data, old_p, shares,
                   lists, sam_pg, base_pg, buf, saved, outcome, cyc, sec,
                   defaults, calls, evaluated, n_load, n_base>>
    /\ UNCHANGED <<request, selected>>

\* line 68: closure() raises; nothing in step catches it
StepClosureRaises ==
    /\ pc = "closure"
    /\ pc' = "idle"
    /\ outcome' = Result("step", "ClosureError")
    /\ UNCHANGED <<constructed, rho_arg, base_built, set_to_none, data, grad, old_p,
                   shares, lists, sam_pg, base_pg, buf, saved, log, cyc, sec,
                   defaults, calls, evaluated, n_load, n_base>>
    /\ UNCHANGED <<request, selected>>

step_second_zero_grad_set == TRUE

\* the zero_grad argument of the second_step call of step: line 69 passes
\* none, so it is the default of line 52
step_second_zero_grad == FALSE

\* line 69: second_step(), then step returns
StepSecond ==
    /\ pc = "second"
    /\ second_step(step_second_zero_grad, TRUE)
    /\ pc' = "idle"
    /\ log' = log \o Events("restore",
                        SubSeq(WithGrad(lists[sam_pg], grad), 1,
                               FirstMissing(WithGrad(lists[sam_pg], grad)) - 1))
                  \o (IF second_step_raises THEN <<>>
                      ELSE <<Ev("base_step", "-")>>)
    /\ outcome' = Result("step",
                         IF second_step_raises THEN "KeyError" ELSE "ok")
    /\ UNCHANGED <<constructed, rho_arg, base_built, set_to_none, lists, sam_pg,
                   base_pg, saved, defaults, n_load>>
    /\ UNCHANGED <<request, selected>>

\* ------------------------------------------------- groups and state dicts
InGroups(gs) == Range(Flat(gs))

\* add_param_group through the SAM optimizer (h = "sam": rho and adaptive
\* come from self.defaults) or through the base optimizer (h = "base": the
\* caller's group carries its rho); both append to the list the handle holds
AddParamGroup ==
    /\ Idle
    /\ \E h \in {"sam", "base"}, r \in RhoVals :
        LET id == IF h = "sam" THEN sam_pg ELSE base_pg
            g  == Group(<<"p3">>, IF h = "sam" THEN defaults.rho ELSE r,
                        defaults.adaptive, 1)
        IN  /\ r >= 0
            /\ h = "sam" => r = defaults.rho
            /\ "p3" \notin InGroups(lists[id])
            /\ lists' = [lists EXCEPT ![id] = Append(@, g)]
    /\ cyc' = [cyc EXCEPT !.clean = FALSE]
    /\ UNCHANGED <<constructed, rho_arg, base_built, set_to_none, data, grad, old_p,
                   shares, sam_pg, base_pg, buf, saved, pc, outcome, log, sec,
                   defaults, calls, evaluated, n_load, n_base>>
    /\ UNCHANGED <<request, selected>>

\* a hyperparameter of the first group written through a handle: a scheduler
\* sets group["lr"] through the SAM optimizer, the training loop sets
\* group["rho"] through the base optimizer
SetHyper ==
    /\ Idle
    /\ \/ \E l \in {1, 2} :
            /\ l # lists[sam_pg][1].lr
            /\ lists' = [lists EXCEPT ![sam_pg][1].lr = l]
       \/ \E r \in RhoVals :
            /\ r >= 0
            /\ r # lists[base_pg][1].rho
            /\ lists' = [lists EXCEPT ![base_pg][1].rho = r]
    /\ cyc' = [cyc EXCEPT !.clean = FALSE]
    /\ UNCHANGED <<constructed, rho_arg, base_built, set_to_none, data, grad, old_p,
                   shares, sam_pg, base_pg, buf, saved, pc, outcome, log, sec,
                   defaults, calls, evaluated, n_load, n_base>>
    /\ UNCHANGED <<request, selected>>

\* state_dict() of the SAM optimizer, serialized: the per-parameter state and
\* the groups of self.param_groups
StateDict ==
    /\ Idle
    /\ saved = None
    /\ saved' = Some([state |-> old_p, groups |-> lists[sam_pg]])
    /\ UNCHANGED <<constructed, rho_arg, base_built, set_to_none, data, grad, old_p,
                   shares, lists, sam_pg, base_pg, buf, pc, outcome, log, cyc,
                   sec, defaults, calls, evaluated, n_load, n_base>>
    /\ UNCHANGED <<request, selected>>

\* Optimizer.load_state_dict refuses a state dict whose groups do not match
Loadable(sd, gs) ==
    /\ Len(sd.groups) = Len(gs)
    /\ \A i \in 1..Len(gs) : Len(sd.groups[i].params) = Len(gs[i].params)

load_base_pg_kept(new, old) == old

\* self.base_optimizer.param_groups = self.param_groups (line 85)
load_base_pg(new, old) == new

load_base_state_replaced(cur) == NoParams

\* the base optimizer's own per-parameter state after lines 84-85: neither
\* line touches self.base_optimizer.state
load_base_state(cur) == cur

\* SAM.load_state_dict, lines 83-85
LoadStateDict ==
    /\ Idle
    /\ saved # None
    /\ n_load < MaxLoads
    /\ n_load' = n_load + 1
    /\ LET gs == lists[sam_pg]
       IN  IF ~Loadable(Val(saved), gs)
           THEN /\ outcome' = Result("load_state_dict", "ValueError")
                /\ UNCHANGED <<old_p, shares, lists, sam_pg, base_pg, cyc, buf>>
           ELSE /\ outcome' = Result("load_state_dict", "ok")
                /\ lists' = Collect(Append(lists,
                       [i \in 1..Len(gs) |->
                           [Val(saved).groups[i] EXCEPT !.params = gs[i].params]]),
                       {Len(lists) + 1, load_base_pg(Len(lists) + 1, base_pg)})
                /\ sam_pg' = Len(lists) + 1
                /\ base_pg' = load_base_pg(Len(lists) + 1, base_pg)
                /\ old_p' = Val(saved).state
                /\ buf' = load_base_state(buf)
                /\ shares' = [p \in Params |-> FALSE]
                /\ cyc' = [cyc EXCEPT !.clean = FALSE]
    /\ UNCHANGED <<constructed, rho_arg, base_built, set_to_none, data, grad,
                   saved, pc, log, sec, defaults, calls, evaluated,
                   n_base>>
    /\ UNCHANGED <<request, selected>>

\* ------------------------------------------------------------ specification
\* the optimizer driven by a training loop: gradient evaluations, the two
\* phases called one by one, and step
Next ==
    \/ Construct
    \/ Backward
    \/ ZeroGrad
    \/ FirstStep
    \/ SecondStep
    \/ StepNoClosure
    \/ StepBegin
    \/ StepClosure
    \/ StepClosureRaises
    \/ StepSecond

Spec == Init /\ [][Next]_vars

\* the same optimizer with its groups edited and its state saved and loaded
\* between calls of step; one configuration (a torch build whose zero_grad
\* sets None, one group of two parameters, not adaptive) and backward passes
\* that reach every parameter of the optimizer
OneConfig ==
    /\ constructed = "yes" =>
          Len(lists[sam_pg]) = 1 /\ ~defaults.adaptive /\ defaults.rho > 0
OnePass ==
    \A p \in Reached : grad[p] # None /\ grad[p] # Some(0)

InitGroups == Init /\ set_to_none

NextGroups ==
    \/ Construct /\ OneConfig'
    \/ Backward /\ OnePass'
    \/ StepBegin
    \/ StepClosure /\ OnePass'
    \/ StepClosureRaises
    \/ StepSecond
    \/ AddParamGroup
    \/ SetHyper
    \/ StateDict
    \/ LoadStateDict

SpecGroups == InitGroups /\ [][NextGroups]_vars

\* the two phases called one by one, second_step possibly twice in a row
NextAlias ==
    \/ Construct
    \/ Backward
    \/ ZeroGrad
    \/ FirstStep
    \/ SecondStep
    \/ SecondStepAgain

SpecAlias == Init /\ [][NextAlias]_vars

\* a call of select_optimizer, for every request
InitSelect ==
    InitOptimizer /\ request \in {Some(r) : r \in Requests} /\ selected = None

NextSelect == Select

SpecSelect == InitSelect /\ [][NextSelect]_vars

\* ------------------------------------------------------------------ claims
\* a transition in which first_step ran to its end
IsFirstStep == calls' = calls + 1 /\ cyc'.open

\* a transition in which second_step ran, called directly or by step
IsSecondStep ==
    calls' = calls + 1 /\ (outcome'.op = "second_step" \/ pc = "second")

\* a transition in which second_step ended the cycle the latest first_step began
IsCycleClose == cyc.open /\ ~cyc'.open

\* a step(closure) call has left step: it returned, or its closure raised
StepLeft ==
    /\ pc = "idle"
    /\ outcome \in {Result("step", "ok"), Result("step", "ClosureError")}

\* C1: in every cycle first_step, gradient re-evaluation, second_step, each
\* parameter first_step perturbed holds exactly its pre-perturbation value at
\* the moment the base optimizer's step is invoked, whatever gradients are
\* present when second_step runs.
C1_RestoredWhenBaseSteps ==
    (sec.cycle /\ sec.evald /\ sec.based) =>
        \A p \in cyc.snap : sec.at_base[p] = cyc.w[p]

\* C2: step(closure) runs first_step with zero_grad=True (every parameter with
\* a gradient is perturbed, then the gradients are cleared), then the closure
\* once, then second_step (restorations, then the base optimizer's step), in
\* this order and nothing else; a call that raises has done a prefix of it.
C2_Perturbs ==
    Events("perturb", SelectSeq(Flat(lists[sam_pg]), LAMBDA p : p \in cyc.snap))

C2_StepProtocol ==
    outcome.op = "step" /\ outcome.result \in {"running", "ok", "ClosureError", "KeyError"} =>
        LET n    == Len(C2_Perturbs)
            tail == SubSeq(log, n + 3, Len(log))
        IN  /\ cyc.snap = {p \in InGroups(lists[sam_pg]) : cyc.g[p] # None}
            /\ Len(log) >= n + 1
            /\ SubSeq(log, 1, n + 1) = C2_Perturbs \o <<Ev("zero_grad", "-")>>
            /\ pc = "closure" =>
                  /\ Len(log) = n + 1
                  /\ \A p \in InGroups(lists[sam_pg]) :
                        grad[p] = None \/ grad[p] = Some(0)
            /\ outcome.result = "ClosureError" => Len(log) = n + 1
            /\ Len(log) > n + 1 => log[n + 2] = Ev("closure", "-")
            /\ pc = "second" => Len(log) = n + 2
            /\ \A i \in 1..Len(tail) :
                  \/ tail[i].kind = "restore"
                  \/ tail[i].kind = "base_step" /\ i = Len(tail)
            /\ outcome.result = "ok" =>
                  /\ tail # <<>> /\ tail[Len(tail)] = Ev("base_step", "-")
                  /\ SubSeq(tail, 1, Len(tail) - 1)
                        = Events("restore",
                                 SelectSeq(Flat(lists[sam_pg]),
                                           LAMBDA p : p \in sec.restored))
            /\ outcome.result = "KeyError" =>
                  \A i \in 1..Len(tail) : tail[i].kind = "restore"

C2_Witness ==
    /\ pc = "idle" /\ outcome = Result("step", "ok")
    /\ Cardinality(cyc.snap) = 2
    /\ Len(log) = 6

\* C3: in every cycle, second_step reads an old_p entry only for a parameter
\* the first_step of that cycle snapshotted, also when the parameters with a
\* gradient at second_step are not those that had one at first_step.
C3_ReadsOnlySnapshots ==
    (sec.cycle /\ sec.evald) => sec.reads \subseteq cyc.snap

\* C4: at every exit from step(closure), by return or by a failure raised in
\* the closure, every parameter step perturbed has been restored: none still
\* holds its perturbed value.
C4_RestoredAtExit ==
    StepLeft =>
        \A p \in cyc.snap : p \in sec.restored \/ data[p] = cyc.w[p]

\* C5: first_step skips a parameter whose gradient is absent, leaving its value
\* and its old_p entry alone; so an old_p entry only ever appears in a
\* first_step at which the parameter has a gradient.
C5_SkipsWithoutGradient ==
    [][/\ IsFirstStep =>
            \A p \in Params : grad[p] = None =>
                data'[p] = data[p] /\ old_p'[p] = old_p[p]
       /\ \A p \in Params :
            (old_p[p] = None /\ old_p'[p] # None) =>
                IsFirstStep /\ grad[p] # None]_vars

C5_Witness ==
    /\ outcome = Result("first_step", "ok")
    /\ cyc.open /\ Cardinality(cyc.snap) = 1
    /\ \E p \in InGroups(lists[sam_pg]) :
          cyc.g[p] = None /\ old_p[p] = None /\ data[p] = cyc.w[p]
    /\ \E p \in cyc.snap : data[p] # cyc.w[p]

\* C6: after construction and after every load_state_dict, in any interleaving
\* with step cycles and group additions, the base optimizer's param_groups is
\* the very list object the SAM optimizer holds, so a group added or a
\* hyperparameter written through one handle is seen through the other.
C6_SharedGroupList ==
    constructed = "yes" =>
        /\ sam_pg = base_pg
        /\ lists[sam_pg] = lists[base_pg]

C6_Witness ==
    /\ outcome = Result("load_state_dict", "ok")
    /\ n_load > 0 /\ calls > 0
    /\ Len(lists[base_pg]) = 2
    /\ sam_pg = base_pg /\ sam_pg > 2

\* C7: step without a closure fails with an assertion error before anything is
\* mutated: parameter values, gradients, old_p entries and the base
\* optimizer's state are unchanged and the base optimizer's step is not run.
C7_NoClosureMutatesNothing ==
    [][(outcome' = Result("step", "AssertionError") /\ outcome' # outcome) =>
            UNCHANGED <<data, grad, old_p, shares, buf, lists, sam_pg,
                        base_pg, n_base>>]_vars

C7_Witness ==
    /\ outcome = Result("step", "AssertionError")
    /\ \E p \in Params : grad[p] # None
    /\ \E p \in Params : old_p[p] # None

\* C8: after first_step every parameter with gradient g in a group with radius
\* rho has old_p equal to its prior value w and the new value
\* w + weight * g * rho / (grad_norm + 1e-12), grad_norm being the one norm
\* over all groups and weight 1, or w squared in an adaptive group; for a
\* single parameter that is not adaptive this is w + rho * g / (|g| + 1e-12).
RECURSIVE C8_SumOver(_, _)
C8_SumOver(S, f) ==
    IF S = {} THEN 0
    ELSE LET p == CHOOSE q \in S : TRUE
         IN  f[p] + C8_SumOver(S \ {p}, f)

C8_HaveGrad == {p \in InGroups(lists[sam_pg]) : grad[p] # None}

C8_GlobalNormSq ==
    C8_SumOver(C8_HaveGrad,
        [p \in C8_HaveGrad |->
            IF GroupOf(lists[sam_pg], p).adaptive
            THEN data[p] * data[p] * Val(grad[p]) * Val(grad[p])
            ELSE Val(grad[p]) * Val(grad[p])])

C8_Expected(p) ==
    LET g == GroupOf(lists[sam_pg], p)
        weight == IF g.adaptive THEN data[p] * data[p] ELSE 1
    IN  data[p] + RoundDivNorm(weight * Val(grad[p]) * g.rho, C8_GlobalNormSq)

C8_PerturbationFormula ==
    [][IsFirstStep =>
          /\ \A p \in C8_HaveGrad :
                /\ old_p'[p] = Some(data[p])
                /\ data'[p] = C8_Expected(p)
          /\ \A p \in C8_HaveGrad :
                (C8_HaveGrad = {p} /\ ~GroupOf(lists[sam_pg], p).adaptive) =>
                    data'[p] = data[p]
                        + RoundDivNorm(GroupOf(lists[sam_pg], p).rho * Val(grad[p]),
                                       Val(grad[p]) * Val(grad[p]))]_vars

C8_Witness ==
    /\ outcome = Result("first_step", "ok")
    /\ cyc.open /\ Cardinality(cyc.snap) = 2
    /\ defaults.adaptive /\ defaults.rho > 0
    /\ Len(lists[sam_pg]) = 2
    /\ \A p \in cyc.snap : data[p] # cyc.w[p] /\ old_p[p] = Some(cyc.w[p])

\* C9: a cycle first_step then second_step with an unchanged gradient ends
\* with each parameter equal to what the base optimizer's step alone produces
\* from the original value w with that gradient, for every rho >= 0.
C9_CycleIsBaseStep ==
    [][(IsCycleClose /\ cyc.clean /\ grad = cyc.g /\ sec'.based) =>
          \A p \in InGroups(lists[sam_pg]) :
              data'[p] = IF grad[p] = None THEN cyc.w[p]
                         ELSE BaseUpdate(cyc.w[p], Val(grad[p]), buf[p],
                                         GroupOf(lists[base_pg], p).lr)]_vars

C9_Witness ==
    /\ outcome = Result("second_step", "ok")
    /\ sec.cycle /\ sec.based /\ ~cyc.open
    /\ defaults.rho > 0
    /\ grad = cyc.g
    /\ sec.restored = cyc.snap /\ Cardinality(cyc.snap) = 2
    /\ \A p \in cyc.snap : Val(cyc.g[p]) # 0 /\ data[p] # cyc.w[p]

\* C10: constructing the SAM optimizer succeeds for every rho >= 0, rho = 0
\* included, and fails with an assertion error for every rho < 0, in which
\* case no base optimizer is constructed.
C10_RhoCheck ==
    constructed # "no" =>
        /\ rho_arg >= 0 <=> constructed = "yes"
        /\ constructed = "yes" => base_built /\ defaults.rho = rho_arg
        /\ constructed = "failed" =>
              /\ ~base_built
              /\ outcome = Result("__init__", "AssertionError")

C10_Witness ==
    constructed = "failed" /\ rho_arg < 0 /\ ~base_built

\* C11: select_optimizer returns an optimizer for each of the seven names SGD,
\* momentum, Adam, AdamW, AdaBelief, SAM, SAM_Adam (SAM wrapping SGD, SAM_Adam
\* wrapping Adam), and for every other name fails with the unsupported
\* optimizer error, constructing no optimizer and not touching the model.
C11_SevenNames ==
    {"SGD", "momentum", "Adam", "AdamW", "AdaBelief", "SAM", "SAM_Adam"}

C11_SelectByName ==
    selected # None =>
        LET n == Val(request).name
            r == Val(selected)
        IN  IF n \in C11_SevenNames
            THEN /\ r.result = "ok" /\ r.built >= 1
                 /\ n = "SAM" => r.class = "SAM" /\ r.base = "SGD"
                 /\ n = "SAM_Adam" => r.class = "SAM" /\ r.base = "Adam"
                 /\ n \notin {"SAM", "SAM_Adam"} => r.base = "-"
            ELSE /\ r.result = "ValueError"
                 /\ r.built = 0 /\ ~r.touched

C11_Witness ==
    /\ selected # None /\ Val(selected).result = "ValueError"
    /\ Val(request).name = "sgd"

\* C12: the aggregate grad_norm doubles when every gradient is doubled; when
\* every present gradient is zero it is 0, the scale rho / (grad_norm + 1e-12)
\* is finite, and first_step leaves every parameter value unchanged.
C12_Doubled(g) ==
    [p \in Params |-> IF g[p] = None THEN None ELSE Some(2 * Val(g[p]))]

C12_AllZero(gs, g) == \A p \in InGroups(gs) : g[p] = None \/ g[p] = Some(0)

\* a norm n >= 0 doubles exactly when its square becomes four times as large
C12_NormScales(gs, d, g) ==
    WithGrad(gs, g) # <<>> =>
        /\ grad_norm_sq(gs, d, C12_Doubled(g)) = 4 * grad_norm_sq(gs, d, g)
        /\ C12_AllZero(gs, g) =>
              /\ grad_norm_sq(gs, d, g) = 0
              /\ ScaleDen(0) # 0

C12_GradNormScaling ==
    [][/\ constructed = "yes" => C12_NormScales(lists[sam_pg], data, grad)
       /\ constructed' = "yes" => C12_NormScales(lists'[sam_pg'], data', grad')
       /\ (/\ IsFirstStep
           /\ WithGrad(lists[sam_pg], grad) # <<>>
           /\ C12_AllZero(lists[sam_pg], grad)) =>
              /\ data' = data
              /\ \A p \in cyc'.snap : old_p'[p] = Some(data[p])]_vars

C12_Witness ==
    /\ outcome = Result("first_step", "ok")
    /\ cyc.open /\ Cardinality(cyc.snap) = 2
    /\ defaults.rho > 0
    /\ \A p \in cyc.snap : cyc.g[p] = Some(0) /\ data[p] = cyc.w[p]

\* C13: first_step and second_step clear gradients only when called with
\* zero_grad set, and then only after the perturbation (first_step) or the
\* restore and base update (second_step) is complete; with zero_grad unset
\* they leave every gradient unchanged, so when step(closure) returns the
\* gradients are those the closure produced.
C13_ClearsOnlyWhenAsked ==
    [][/\ (Idle /\ first_step(FALSE)) => grad' = grad
       /\ (Idle /\ second_step(FALSE, FALSE)) => grad' = grad
       /\ (calls' = calls + 1 /\ grad' # grad) =>
              /\ grad' = zero_grad(lists[sam_pg], grad)
              /\ IsFirstStep =>
                    /\ cyc'.g = grad
                    /\ \A p \in C8_HaveGrad : data'[p] = C8_Expected(p)
              /\ IsSecondStep =>
                    /\ sec'.based /\ n_base' = n_base + 1
                    /\ \A p \in sec'.restored :
                          data'[p] = BaseUpdate(Val(old_p[p]), Val(grad[p]), buf[p],
                                                GroupOf(lists[base_pg], p).lr)
       /\ (pc = "idle" /\ pc' = "closure") => grad' = zero_grad(lists[sam_pg], grad)
       /\ (pc = "second" /\ pc' = "idle") => grad' = grad]_vars

C13_Witness ==
    /\ pc = "idle" /\ outcome = Result("step", "ok")
    /\ sec.in_step /\ sec.based /\ Cardinality(sec.restored) = 2
    /\ \A p \in sec.restored : grad[p] # None /\ Val(grad[p]) # 0

\* C14: first_step called when no parameter of any group has a gradient
\* completes without error as a no-op: no parameter value changes and no
\* old_p entry is created.
C14_NoGradientIsNoOp ==
    [][(/\ Idle
        /\ calls' = calls + 1
        /\ outcome'.op = "first_step"
        /\ \A p \in InGroups(lists[sam_pg]) : grad[p] = None) =>
            /\ outcome'.result = "ok"
            /\ data' = data
            /\ old_p' = old_p]_vars

\* C15: second_step restores a parameter by making it share the stored old_p
\* array, so the base optimizer's in-place update also changes the snapshot:
\* after second_step, old_p of every restored parameter equals the
\* parameter's post-update value, and a further second_step with no
\* first_step in between starts from that value, not from the pre-cycle w.
C15_SnapshotFollowsUpdate ==
    [][(IsSecondStep /\ sec'.based) =>
          \A p \in sec'.restored :
              /\ old_p'[p] = Some(data'[p])
              /\ data'[p] # cyc.w[p] => old_p'[p] # Some(cyc.w[p])
              /\ (~cyc.open /\ sec.based /\ p \in sec.restored) =>
                    sec'.at_base[p] = data[p]]_vars

C15_Witness ==
    /\ outcome = Result("second_step", "ok")
    /\ ~cyc.open /\ sec.based /\ n_base = 2
    /\ Cardinality(cyc.snap) = 2 /\ sec.restored = cyc.snap
    /\ \A p \in cyc.snap :
          /\ old_p[p] = Some(data[p])
          /\ sec.at_base[p] # cyc.w[p]
          /\ data[p] # cyc.w[p]

\* C16: load_state_dict on the SAM optimizer replaces only the SAM
\* optimizer's own per-parameter state and group list and re-points the base
\* optimizer's group list; the base optimizer's own per-parameter state is
\* left unchanged by it and is not part of what the SAM optimizer's state
\* dict carries.
C16_LoadLeavesBaseState ==
    [][/\ n_load' = n_load + 1 =>
              /\ buf' = buf /\ n_base' = n_base
              /\ data' = data /\ grad' = grad
              /\ outcome' = Result("load_state_dict", "ok") =>
                    /\ old_p' = Val(saved).state
                    /\ sam_pg' # sam_pg /\ base_pg' = sam_pg'
                    /\ Len(lists'[sam_pg']) = Len(Val(saved).groups)
                    /\ \A i \in 1..Len(lists'[sam_pg']) :
                          /\ lists'[sam_pg'][i].rho = Val(saved).groups[i].rho
                          /\ lists'[sam_pg'][i].lr = Val(saved).groups[i].lr
                          /\ lists'[sam_pg'][i].params = lists[sam_pg][i].params
       /\ (saved = None /\ saved' # None) =>
              /\ DOMAIN Val(saved') = {"state", "groups"}
              /\ Val(saved').state = old_p
              /\ Val(saved').groups = lists[sam_pg]]_vars

C16_Witness ==
    /\ outcome = Result("load_state_dict", "ok")
    /\ n_base > 0
    /\ \E p \in Params : buf[p] # None /\ Val(buf[p]) # 0
    /\ \E p \in Params : Val(saved).state[p] = None /\ old_p[p] = None
                         /\ buf[p] # None
=============================================================================
